---- MODULE Spec2Model ----
(***************************************************************************)
(* Sales forecast service of craft-demo.                                   *)
(*                                                                         *)
(* The repository carries two copies of the forecast service:              *)
(*   "services" : src/unnamed/part_003 lines 1-652, every failure branch   *)
(*                falls back to generateSimpleForecast;                    *)
(*   "internal" : src/internal/services/sales_forecast.go, every failure   *)
(*                branch returns an error and the handler answers 500.     *)
(* Which copy the router mounts is not in the sources, so the copy is an   *)
(* input of the model (variable impl).                                     *)
(*                                                                         *)
(* Text is a sequence of tokens (strings); a '[' or ']' byte is a token of *)
(* its own.  A period label is a record [f, y, m, d]: f = "ymd" is a       *)
(* string shaped YYYY-MM-DD, f = "ym" a string shaped YYYY-MM, any other f *)
(* a string of neither shape.  float64 totals are exact rationals          *)
(* [n, d] with d > 0 in forecasts and integers in the input series.        *)
(***************************************************************************)
EXTENDS Integers, Sequences, FiniteSets, TLC

VARIABLES
    impl,       \* which copy of the service is mounted
    pc,         \* position of the handler: idle, testing, sending, done
    apiKey,     \* os.Getenv("OPENAI_API_KEY") of this invocation
    request,    \* the bound ForecastRequest
    calls,      \* outbound requests of this invocation, with their outcomes
    estimated,  \* number of generateSimpleForecast runs of this invocation
    path,       \* the return statement the invocation ended at
    http,       \* the HTTP answer written by the handler
    arg,        \* input of a direct call of a helper (SpecEst)
    ret,        \* its result (SpecEst)
    dateRange,             \* startDate and endDate: the n-th range chosen
    salesData,             \* the range whose report is shown (0: none yet)
    forecastCache,         \* granularity -> the forecast stored under it
    isGeneratingForecast,  \* the flag of the dashboard
    shownPeriod,           \* timePeriod, the granularity selected
    fetches,               \* range -> state of its report request
    forecasts              \* the forecast requests in flight

\* The state of the dashboard (App.tsx) and the state of the server.
dashVars ==
    <<dateRange, salesData, forecastCache, isGeneratingForecast, shownPeriod,
      fetches, forecasts>>

serverVars == <<impl, pc, apiKey, request, calls, estimated, path, http, arg, ret>>

vars == <<serverVars, dashVars>>

\* No dashboard is mounted.
NoDashboard ==
    /\ dateRange = 0
    /\ salesData = 0
    /\ forecastCache = <<>>
    /\ isGeneratingForecast = FALSE
    /\ shownPeriod = "month"
    /\ fetches = <<>>
    /\ forecasts = <<>>

\* ------------------------------------------------------------------ bounds

MaxLen == 3
MaxEstLen == 4
MaxOffset == 14
MaxTok == 5
MaxObs == 3
MaxRanges == 3

\* ---------------------------------------------------------------- calendar

Lbl(f, y, m, d) == [f |-> f, y |-> y, m |-> m, d |-> d]
Date(y, m, d) == [y |-> y, m |-> m, d |-> d]

IsLeap(y) == (y % 4 = 0 /\ y % 100 # 0) \/ y % 400 = 0

DaysIn(y, m) ==
    CASE m \in {1, 3, 5, 7, 8, 10, 12} -> 31
      [] m \in {4, 6, 9, 11} -> 30
      [] OTHER -> IF IsLeap(y) THEN 29 ELSE 28

\* time.Date normalisation: months first, then days.
RECURSIVE NormDate(_, _, _)
NormDate(y, m, d) ==
    IF m > 12 THEN NormDate(y + 1, m - 12, d)
    ELSE IF m < 1 THEN NormDate(y - 1, m + 12, d)
    ELSE IF d > DaysIn(y, m) THEN NormDate(y, m + 1, d - DaysIn(y, m))
    ELSE IF d < 1 THEN
        LET py == IF m = 1 THEN y - 1 ELSE y
            pm == IF m = 1 THEN 12 ELSE m - 1
        IN  NormDate(py, pm, d + DaysIn(py, pm))
    ELSE Date(y, m, d)

AddDate(t, years, months, days) == NormDate(t.y + years, t.m + months, t.d + days)

ZeroTime == Date(1, 1, 1)

After(a, b) ==
    \/ a.y > b.y
    \/ a.y = b.y /\ a.m > b.m
    \/ a.y = b.y /\ a.m = b.m /\ a.d > b.d

\* time.Parse("2006-01-02", s)
ParseDay(s) ==
    IF s.f = "ymd" /\ s.m \in 1..12 /\ s.d >= 1 /\ s.d <= DaysIn(s.y, s.m)
    THEN [ok |-> TRUE, t |-> Date(s.y, s.m, s.d)]
    ELSE [ok |-> FALSE, t |-> ZeroTime]

\* time.Parse("2006-01", s)
ParseMonth(s) ==
    IF s.f = "ym" /\ s.m \in 1..12
    THEN [ok |-> TRUE, t |-> Date(s.y, s.m, 1)]
    ELSE [ok |-> FALSE, t |-> ZeroTime]

FormatDay(t) == Lbl("ymd", t.y, t.m, t.d)
FormatMonth(t) == Lbl("ym", t.y, t.m, 0)

\* The two-format parse used by filterToLast12Months.
ParsePeriod(s) == IF ParseDay(s).ok THEN ParseDay(s) ELSE ParseMonth(s)

\* ------------------------------------------------------- float64 as rationals

RECURSIVE Gcd(_, _)
Gcd(a, b) == IF b = 0 THEN a ELSE Gcd(b, a % b)

Abs(x) == IF x < 0 THEN -x ELSE x

\* d = 0 stands for the NaN / Inf of a float division by zero.
Rat(n, d) ==
    IF d = 0 THEN [n |-> n, d |-> 0]
    ELSE LET g == Gcd(Abs(n), Abs(d))
             s == IF d < 0 THEN -1 ELSE 1
         IN  [n |-> (s * n) \div g, d |-> (s * d) \div g]

RInt(x) == Rat(x, 1)
RAdd(a, b) == Rat(a.n * b.d + b.n * a.d, a.d * b.d)
RSub(a, b) == Rat(a.n * b.d - b.n * a.d, a.d * b.d)
RMul(a, b) == Rat(a.n * b.n, a.d * b.d)
RDiv(a, b) == Rat(a.n * b.d, a.d * b.n)
RNeg(a) == a.d > 0 /\ a.n < 0
RLeq(a, b) == a.n * b.d <= b.n * a.d

RECURSIVE Sum(_)
Sum(s) == IF s = <<>> THEN 0 ELSE Head(s) + Sum(Tail(s))

\* math.Sin(float64(i) * math.Pi / 6), sin(pi/3) taken as 433/500.
SinPi6(i) ==
    LET k == i % 12
        v == CASE k \in {0, 6} -> Rat(0, 1)
               [] k \in {1, 5} -> Rat(1, 2)
               [] k \in {2, 4} -> Rat(433, 500)
               [] k = 3 -> Rat(1, 1)
               [] k \in {7, 11} -> Rat(-1, 2)
               [] k \in {8, 10} -> Rat(-433, 500)
               [] OTHER -> Rat(-1, 1)
    IN  v

\* rand.Float64(): the i-th draw (from 0) of the global generator in an
\* invocation that finds it at position seed.  Values lie in [0, 1).
RandDraws == <<Rat(0, 1), Rat(9, 10)>>
Seeds == 0..(Len(RandDraws) - 1)
RandFloat64(seed, i) == RandDraws[((seed + i) % Len(RandDraws)) + 1]

\* ------------------------------------------------------------ the estimator

\* A variant of getForecastPeriods with one week of days.
getForecastPeriods_Day7(timePeriod) ==
    CASE timePeriod = "day" -> 7
      [] timePeriod = "week" -> 4
      [] timePeriod = "month" -> 6
      [] OTHER -> 12

\* getForecastPeriods
getForecastPeriods(timePeriod) ==
    CASE timePeriod = "day" -> 14
      [] timePeriod = "week" -> 4
      [] timePeriod = "month" -> 6
      [] OTHER -> 12

\* createRequestForPeriod
createRequestForPeriod(req, timePeriod) ==
    [req EXCEPT !.TimePeriod = timePeriod,
                !.PeriodsToForecast = getForecastPeriods(timePeriod)]

\* First loop of filterToLast12Months: the latest parsable date.
RECURSIVE LatestDate(_, _)
LatestDate(data, latest) ==
    IF data = <<>> THEN latest
    ELSE LET p == ParsePeriod(Head(data).Period)
         IN  IF p.ok /\ After(p.t, latest)
             THEN LatestDate(Tail(data), p.t)
             ELSE LatestDate(Tail(data), latest)

\* A variant of the filter that drops the point dated exactly at the cutoff.
filterToLast12Months_StrictCutoff(data) ==
    IF Len(data) = 0 THEN data
    ELSE LET latestDate == LatestDate(data, ZeroTime)
             cutoffDate == AddDate(latestDate, 0, -12, 0)
             Keep(point) ==
                 LET p == ParsePeriod(point.Period)
                 IN  p.ok /\ After(p.t, cutoffDate)
         IN  SelectSeq(data, Keep)

\* filterToLast12Months
filterToLast12Months(data) ==
    IF Len(data) = 0 THEN data
    ELSE LET latestDate == LatestDate(data, ZeroTime)
             cutoffDate == AddDate(latestDate, 0, -12, 0)
             Keep(point) ==
                 LET p == ParsePeriod(point.Period)
                 IN  p.ok /\ (After(p.t, cutoffDate) \/ p.t = cutoffDate)
         IN  SelectSeq(data, Keep)

\* A variant of generateNextPeriod whose weeks advance by single days.
generateNextPeriod_WeekAsDays(lastPeriod, timePeriod, offset, now) ==
    CASE timePeriod \in {"day", "week"} ->
            LET p == ParseDay(lastPeriod)
                baseDate == IF p.ok THEN p.t ELSE now
            IN  FormatDay(AddDate(baseDate, 0, 0, offset))
      [] timePeriod = "month" ->
            LET p == ParseMonth(lastPeriod)
                q == ParseDay(lastPeriod)
                baseDate == IF p.ok THEN p.t ELSE IF q.ok THEN q.t ELSE now
            IN  FormatMonth(AddDate(baseDate, 0, offset, 0))
      [] OTHER -> Lbl("forecast", 0, 0, offset)

\* A variant of generateNextPeriod that always advances from the current date.
generateNextPeriod_FromNow(lastPeriod, timePeriod, offset, now) ==
    CASE timePeriod = "day" -> FormatDay(AddDate(now, 0, 0, offset))
      [] timePeriod = "week" -> FormatDay(AddDate(now, 0, 0, offset * 7))
      [] timePeriod = "month" -> FormatMonth(AddDate(now, 0, offset, 0))
      [] OTHER -> Lbl("forecast", 0, 0, offset)

\* generateNextPeriod; now is the date time.Now() returns.
generateNextPeriod(lastPeriod, timePeriod, offset, now) ==
    CASE timePeriod = "day" ->
            LET p == ParseDay(lastPeriod)
                baseDate == IF p.ok THEN p.t ELSE now
            IN  FormatDay(AddDate(baseDate, 0, 0, offset))
      [] timePeriod = "week" ->
            LET p == ParseDay(lastPeriod)
                baseDate == IF p.ok THEN p.t ELSE now
            IN  FormatDay(AddDate(baseDate, 0, 0, offset * 7))
      [] timePeriod = "month" ->
            LET p == ParseMonth(lastPeriod)
                q == ParseDay(lastPeriod)
                baseDate == IF p.ok THEN p.t ELSE IF q.ok THEN q.t ELSE now
            IN  FormatMonth(AddDate(baseDate, 0, offset, 0))
      [] OTHER -> Lbl("forecast", 0, 0, offset)

Clamp(v) == IF RNeg(v) THEN RInt(0) ELSE v

\* A variant of the trend loop body with a volatility of 0.5.
TrendPoint_WideNoise(avgRecent, trend, i, lastPeriod, timePeriod, seed, now) ==
    [Period |-> generateNextPeriod(lastPeriod, timePeriod, i + 1, now),
     Total |-> Clamp(RMul(RMul(RAdd(avgRecent, RMul(trend, RInt(i + 1))),
                               RAdd(RInt(1), RMul(Rat(1, 10), SinPi6(i)))),
                          RAdd(RInt(1),
                               RMul(RMul(RSub(RandFloat64(seed, i), Rat(1, 2)),
                                         Rat(1, 2)), RInt(2)))))]

\* generateSimpleForecast, the loop body of the trend branch (step i from 0).
TrendPoint(avgRecent, trend, i, lastPeriod, timePeriod, seed, now) ==
    [Period |-> generateNextPeriod(lastPeriod, timePeriod, i + 1, now),
     Total |-> Clamp(RMul(RMul(RAdd(avgRecent, RMul(trend, RInt(i + 1))),
                               RAdd(RInt(1), RMul(Rat(1, 10), SinPi6(i)))),
                          RAdd(RInt(1),
                               RMul(RMul(RSub(RandFloat64(seed, i), Rat(1, 2)),
                                         Rat(5, 100)), RInt(2)))))]

\* A variant of the linear loop body that labels from the last period itself.
LinearPoint_FromLast(avgRecent, trend, i, lastPeriod, timePeriod, now) ==
    [Period |-> generateNextPeriod(lastPeriod, timePeriod, i, now),
     Total |-> Clamp(RAdd(avgRecent, RMul(trend, RInt(i + 1))))]

\* generateSimpleForecast, the loop body of the simple linear branch.
LinearPoint(avgRecent, trend, i, lastPeriod, timePeriod, now) ==
    [Period |-> generateNextPeriod(lastPeriod, timePeriod, i + 1, now),
     Total |-> Clamp(RAdd(avgRecent, RMul(trend, RInt(i + 1))))]

\* generateSimpleForecast from the split into recent and older values on.
\* panic: make() with a negative length.  branch tells which of the two
\* loops ran: "trend" (lines 426-469) or "linear" (471-489).
ForecastBranch(values, windowSize, avgRecent, olderValues, lastPeriod, req, seed, now) ==
    IF req.PeriodsToForecast < 0
    THEN [panic |-> TRUE, forecast |-> <<>>,
          branch |-> IF Len(olderValues) > 0 THEN "trend" ELSE "linear"]
    ELSE IF Len(olderValues) > 0
    THEN [panic |-> FALSE, branch |-> "trend",
          forecast |->
              [j \in 1..req.PeriodsToForecast |->
                  TrendPoint(avgRecent,
                             RDiv(RSub(avgRecent, Rat(Sum(olderValues), Len(olderValues))),
                                  RInt(windowSize)),
                             j - 1, lastPeriod, req.TimePeriod, seed, now)]]
    ELSE [panic |-> FALSE, branch |-> "linear",
          forecast |->
              [j \in 1..req.PeriodsToForecast |->
                  LinearPoint(avgRecent,
                              RDiv(RSub(avgRecent, RInt(values[1])), RInt(Len(values) - 1)),
                              j - 1, lastPeriod, req.TimePeriod, now)]]

\* generateSimpleForecast from the window on.
ForecastWindow(values, windowSize, lastPeriod, req, seed, now) ==
    ForecastBranch(values, windowSize,
                   Rat(Sum(SubSeq(values, Len(values) - windowSize + 1, Len(values))),
                       windowSize),
                   SubSeq(values, 1, Len(values) - windowSize),
                   lastPeriod, req, seed, now)

\* A variant of the estimator that asks for three points in the lookback.
ForecastFiltered_Min3(filteredData, req, seed, now) ==
    IF Len(filteredData) < 3 THEN [panic |-> FALSE, forecast |-> <<>>, branch |-> "none"]
    ELSE ForecastWindow([i \in 1..Len(filteredData) |-> filteredData[i].Total],
                        3, filteredData[Len(filteredData)].Period, req, seed, now)

\* A variant of the estimator that only returns early on no point at all.
ForecastFiltered_NoMinimum(filteredData, req, seed, now) ==
    IF Len(filteredData) < 1 THEN [panic |-> FALSE, forecast |-> <<>>, branch |-> "none"]
    ELSE ForecastWindow([i \in 1..Len(filteredData) |-> filteredData[i].Total],
                        IF Len(filteredData) < 3 THEN Len(filteredData) ELSE 3,
                        filteredData[Len(filteredData)].Period, req, seed, now)

\* A variant of the estimator whose window is two points wide.
ForecastFiltered_Window2(filteredData, req, seed, now) ==
    IF Len(filteredData) < 2 THEN [panic |-> FALSE, forecast |-> <<>>, branch |-> "none"]
    ELSE ForecastWindow([i \in 1..Len(filteredData) |-> filteredData[i].Total],
                        2, filteredData[Len(filteredData)].Period, req, seed, now)

\* generateSimpleForecast on the filtered series.
ForecastFiltered(filteredData, req, seed, now) ==
    IF Len(filteredData) < 2 THEN [panic |-> FALSE, forecast |-> <<>>, branch |-> "none"]
    ELSE ForecastWindow([i \in 1..Len(filteredData) |-> filteredData[i].Total],
                        IF Len(filteredData) < 3 THEN Len(filteredData) ELSE 3,
                        filteredData[Len(filteredData)].Period, req, seed, now)

\* generateSimpleForecast
generateSimpleForecast(req, seed, now) ==
    ForecastFiltered(filterToLast12Months(req.TimeSeriesData), req, seed, now)

\* ------------------------------------------------------------------ inputs

Points ==
    { [Period |-> Lbl("ymd", 2024, 1, 31), Total |-> 3],
      [Period |-> Lbl("ym", 2024, 3, 0), Total |-> -9],
      [Period |-> Lbl("ymd", 2023, 1, 15), Total |-> 1],
      [Period |-> Lbl("text", 0, 0, 0), Total |-> 1] }

Series == UNION {[1..n -> Points] : n \in 0..MaxLen}

TimePeriods == {"", "day", "week", "month", "year"}

Requests ==
    [TimeSeriesData : Series, TimePeriod : TimePeriods, PeriodsToForecast : {0, 3}]

NoRequest == [TimeSeriesData |-> <<>>, TimePeriod |-> "", PeriodsToForecast |-> 0]

\* Values of OPENAI_API_KEY: unset, 8 characters, 13 characters with
\* another prefix, 13 characters starting "sk-".
ApiKeys ==
    { <<>>,
      <<"s", "k", "-", "s", "h", "o", "r", "t">>,
      <<"p", "k", "-", "0", "1", "2", "3", "4", "5", "6", "7", "8", "9">>,
      <<"s", "k", "-", "0", "1", "2", "3", "4", "5", "6", "7", "8", "9">> }

\* Dates time.Now() may show.
Nows == {Date(2026, 11, 3), Date(2027, 2, 27)}

\* Objects the provider may put in its array.
ObjFeb == "{\"period\":\"2024-02\",\"total\":500.0}"
ObjNeg == "{\"period\":\"2024-03\",\"total\":-50.0}"

ObjPoint(tok) ==
    IF tok = ObjFeb THEN [Period |-> Lbl("ym", 2024, 2, 0), Total |-> RInt(500)]
    ELSE [Period |-> Lbl("ym", 2024, 3, 0), Total |-> RInt(-50)]

IsObj(tok) == tok \in {ObjFeb, ObjNeg}

\* Reply texts of the provider.
Contents ==
    { <<"Here you go: ", "[", ObjFeb, "]", " thanks">>,
      <<"[", ObjFeb, ",", ObjNeg, "]">>,
      <<"[", "]">>,
      <<"I cannot forecast this.">>,
      <<"Simple forecast generated (no API key)">>,
      <<"]", ObjFeb, "[">>,
      <<>> }

\* What the provider answers to one request: the connection fails (net),
\* or a status arrives with a body that decodes (or not) into choices.
Reply(net, status, decodes, choices) ==
    [net |-> net, status |-> status, decodes |-> decodes, choices |-> choices]

FailedReplies ==
    {Reply("timeout", 0, FALSE, <<>>)} \cup
    {Reply("ok", st, FALSE, <<>>) : st \in {401, 404, 429, 500, 503}}

\* testOpenAIAPI tells 200 from every other status and reads no body.
TestReplies ==
    {Reply("timeout", 0, FALSE, <<>>), Reply("ok", 401, FALSE, <<>>),
     Reply("ok", 200, TRUE, <<>>)}

ChatReplies ==
    FailedReplies
    \cup {Reply("ok", 200, FALSE, <<>>), Reply("ok", 200, TRUE, <<>>)}
    \cup {Reply("ok", 200, TRUE, <<c>>) : c \in Contents}

\* ------------------------------------------------------------ the provider

\* A variant of testOpenAIAPI that reports every answer as a success.
testOpenAIAPI_AlwaysOk(reply) == ""

\* testOpenAIAPI: the error it returns, "" for nil.
testOpenAIAPI(reply) ==
    IF reply.net # "ok" THEN "test request failed"
    ELSE IF reply.status # 200 THEN "test request failed with status"
    ELSE ""

\* sendChatGPTRequest
sendChatGPTRequest(reply) ==
    IF reply.net # "ok" THEN [err |-> "transport", Choices |-> <<>>]
    ELSE IF reply.status # 200 THEN
        [err |-> CASE reply.status = 401 -> "OpenAI API authentication failed"
                   [] reply.status = 404 -> "OpenAI API endpoint not found"
                   [] reply.status = 429 -> "OpenAI API rate limit exceeded"
                   [] reply.status = 500 -> "OpenAI API server error"
                   [] OTHER -> "OpenAI API returned status",
         Choices |-> <<>>]
    ELSE IF ~reply.decodes THEN [err |-> "decode", Choices |-> <<>>]
    ELSE [err |-> "", Choices |-> reply.choices]

\* json.Unmarshal of the candidate into []TimeSeriesPoint: an array of
\* objects separated by commas, or null.
RECURSIVE DecodeElems(_)
DecodeElems(toks) ==
    IF toks = <<>> THEN [ok |-> FALSE, points |-> <<>>]
    ELSE IF ~IsObj(Head(toks)) THEN [ok |-> FALSE, points |-> <<>>]
    ELSE IF Len(toks) = 1 THEN [ok |-> TRUE, points |-> <<ObjPoint(Head(toks))>>]
    ELSE IF toks[2] # "," THEN [ok |-> FALSE, points |-> <<>>]
    ELSE LET rest == DecodeElems(SubSeq(toks, 3, Len(toks)))
         IN  IF rest.ok
             THEN [ok |-> TRUE, points |-> <<ObjPoint(Head(toks))>> \o rest.points]
             ELSE [ok |-> FALSE, points |-> <<>>]

Unmarshal(jsonStr) ==
    IF jsonStr = <<"null">> THEN [ok |-> TRUE, points |-> <<>>]
    ELSE IF Len(jsonStr) < 2 \/ Head(jsonStr) # "[" \/ jsonStr[Len(jsonStr)] # "]"
    THEN [ok |-> FALSE, points |-> <<>>]
    ELSE IF Len(jsonStr) = 2 THEN [ok |-> TRUE, points |-> <<>>]
    ELSE DecodeElems(SubSeq(jsonStr, 2, Len(jsonStr) - 1))

\* A variant of the parser's tail that hands back the candidate as raw text.
ParseBetween_RawCandidate(content, start, end) ==
    IF start >= end
    THEN [forecast |-> <<>>, raw |-> content,
          err |-> "could not find JSON array in response"]
    ELSE IF ~Unmarshal(SubSeq(content, start + 1, end)).ok
    THEN [forecast |-> <<>>, raw |-> content,
          err |-> "failed to parse single-period JSON"]
    ELSE [forecast |-> Unmarshal(SubSeq(content, start + 1, end)).points,
          raw |-> SubSeq(content, start + 1, end), err |-> ""]

\* parseSinglePeriodChatGPTResponse once start and end are found.
ParseBetween(content, start, end) ==
    IF start >= end
    THEN [forecast |-> <<>>, raw |-> content,
          err |-> "could not find JSON array in response"]
    ELSE IF ~Unmarshal(SubSeq(content, start + 1, end)).ok
    THEN [forecast |-> <<>>, raw |-> content,
          err |-> "failed to parse single-period JSON"]
    ELSE [forecast |-> Unmarshal(SubSeq(content, start + 1, end)).points,
          raw |-> content, err |-> ""]

\* The first loop: the first '[' before the last byte, else 0.
FindStart(content) ==
    IF \E i \in 0..(Len(content) - 2) : content[i + 1] = "["
    THEN CHOOSE i \in 0..(Len(content) - 2) :
             /\ content[i + 1] = "["
             /\ \A j \in 0..(i - 1) : content[j + 1] # "["
    ELSE 0

\* The second loop: one past the last ']' after start, else len(content).
FindEnd(content, start) ==
    IF \E i \in (start + 1)..(Len(content) - 1) : content[i + 1] = "]"
    THEN (CHOOSE i \in (start + 1)..(Len(content) - 1) :
              /\ content[i + 1] = "]"
              /\ \A j \in (i + 1)..(Len(content) - 1) : content[j + 1] # "]") + 1
    ELSE Len(content)

\* parseSinglePeriodChatGPTResponse; positions are the source's, from 0.
parseSinglePeriodChatGPTResponse(response) ==
    IF Len(response.Choices) = 0
    THEN [forecast |-> <<>>, raw |-> <<>>, err |-> "no choices in ChatGPT response"]
    ELSE ParseBetween(response.Choices[1], FindStart(response.Choices[1]),
                      FindEnd(response.Choices[1], FindStart(response.Choices[1])))

\* --------------------------------------------------------- the orchestrator

Implementations == {"services", "internal"}

MsgOk == <<"Forecast generated successfully">>

\* The fallback-reason strings of generateForecastForPeriod (services copy).
ReasonNoKey == <<"Simple forecast generated (no API key)">>
ReasonShortKey == <<"Simple forecast generated (invalid API key)">>
ReasonBadFormat == <<"Simple forecast generated (invalid API key format)">>
ReasonTestFailed == <<"Simple forecast generated (API test failed)">>
ReasonRequestFailed == <<"Simple forecast generated (ChatGPT request failed)">>
ReasonParseFailed == <<"Simple forecast generated (parsing failed)">>

FallbackReasons ==
    {ReasonNoKey, ReasonShortKey, ReasonBadFormat, ReasonTestFailed,
     ReasonRequestFailed, ReasonParseFailed}

\* The local timePeriod of GenerateSalesForecast.
TimePeriodOf(req) == IF req.TimePeriod = "" THEN "month" ELSE req.TimePeriod

\* The credential checks of generateForecastForPeriod, in the source's
\* order; "" when the key passes.
CheckKey(key) ==
    IF key = <<>> THEN "no_key"
    ELSE IF key = <<>> \/ Len(key) < 10 THEN "short_key"
    ELSE IF Len(key) < 3 \/ SubSeq(key, 1, 3) # <<"s", "k", "-">> THEN "bad_format"
    ELSE ""

\* A variant of the fallback reasons that leaves the raw response empty.
ReasonOf_Omitted(p) == <<>>

\* The raw response a failure branch returns with the simple forecast.
ReasonOf(p) ==
    CASE p = "no_key" -> ReasonNoKey
      [] p = "short_key" -> ReasonShortKey
      [] p = "bad_format" -> ReasonBadFormat
      [] p = "test_failed" -> ReasonTestFailed
      [] p = "request_failed" -> ReasonRequestFailed
      [] OTHER -> ReasonParseFailed

NoForecast == [Forecast |-> <<>>, TimePeriod |-> "", Message |-> <<>>, RawResponse |-> <<>>]
NoHttp == [status |-> 0, error |-> "", body |-> NoForecast]

\* c.JSON(status, map[string]string{"error": msg})
JsonError(status, msg) == [status |-> status, error |-> msg, body |-> NoForecast]

\* A failure branch of generateForecastForPeriod: the services copy returns
\* the simple forecast with the reason as raw response and a nil error, the
\* internal copy returns the error.
FailureBranch(im, req, p, seed, now) ==
    IF im = "services"
    THEN [forecast |-> generateSimpleForecast(
                           createRequestForPeriod(req, TimePeriodOf(req)), seed, now).forecast,
          raw |-> ReasonOf(p), err |-> "", ran |-> 1, path |-> p]
    ELSE [forecast |-> <<>>, raw |-> <<>>, err |-> p, ran |-> 0, path |-> p]

\* generateForecastForPeriod after parseSinglePeriodChatGPTResponse.
AfterParse(im, req, parsed, seed, now) ==
    IF parsed.err # "" THEN FailureBranch(im, req, "parse_failed", seed, now)
    ELSE [forecast |-> parsed.forecast, raw |-> parsed.raw, err |-> "",
          ran |-> 0, path |-> "provider"]

\* generateForecastForPeriod after sendChatGPTRequest.
AfterSend(im, req, sent, seed, now) ==
    IF sent.err # "" THEN FailureBranch(im, req, "request_failed", seed, now)
    ELSE AfterParse(im, req, parseSinglePeriodChatGPTResponse(sent), seed, now)

\* The fallback of GenerateSalesForecast when generateForecastForPeriod
\* returns an error (services copy).
HandlerFallback(req, seed, now) ==
    [status |-> 200, error |-> "",
     body |-> [Forecast |-> generateSimpleForecast(
                                createRequestForPeriod(req, TimePeriodOf(req)),
                                seed, now).forecast,
               TimePeriod |-> TimePeriodOf(req),
               Message |-> MsgOk, RawResponse |-> <<>>]]

\* The tail of GenerateSalesForecast, from the return of
\* generateForecastForPeriod to the answer.
Respond(im, req, res, seed, now) ==
    IF res.err # "" THEN
        IF im = "services" THEN HandlerFallback(req, seed, now)
        ELSE JsonError(500, "Failed to generate forecast")
    ELSE [status |-> 200, error |-> "",
          body |-> [Forecast |-> res.forecast, TimePeriod |-> TimePeriodOf(req),
                    Message |-> MsgOk, RawResponse |-> res.raw]]

Finish(req, res, seed, now) ==
    /\ pc' = "done"
    /\ path' = res.path
    /\ estimated' = estimated + res.ran
                    + (IF res.err # "" /\ impl = "services" THEN 1 ELSE 0)
    /\ http' = Respond(impl, req, res, seed, now)

\* A variant of the validation that lets the empty series through.
ValidateRequest_Never(req) == ""

\* The validation of GenerateSalesForecast: the error it answers, "" if none.
ValidateRequest(req) ==
    IF Len(req.TimeSeriesData) = 0 THEN "No time series data provided" ELSE ""

NoArg == [fn |-> "none", req |-> NoRequest, seed |-> 0, now |-> ZeroTime]
NoRet == [returned |-> FALSE, panic |-> FALSE, forecast |-> <<>>]

Init ==
    /\ impl \in Implementations
    /\ NoDashboard
    /\ pc = "idle"
    /\ apiKey = <<>>
    /\ request = NoRequest
    /\ calls = <<>>
    /\ estimated = 0
    /\ path = ""
    /\ http = NoHttp
    /\ arg = NoArg
    /\ ret = NoRet

\* c.Bind fails: 400 before anything else.
BindError ==
    /\ pc = "idle"
    /\ pc' = "done"
    /\ path' = "bind_error"
    /\ http' = JsonError(400, "Invalid request format")
    /\ UNCHANGED <<dashVars, impl, apiKey, request, calls, estimated, arg, ret>>

\* GenerateSalesForecast from its entry to its first outbound request, or to
\* its answer when no request is sent.
GenerateSalesForecast(req, key, seed, now) ==
    /\ pc = "idle"
    /\ request' = req
    /\ UNCHANGED <<dashVars, impl, arg, ret>>
    /\ IF ValidateRequest(req) # ""
       THEN /\ pc' = "done"
            /\ path' = "no_data"
            /\ http' = JsonError(400, ValidateRequest(req))
            /\ UNCHANGED <<apiKey, calls, estimated>>
       ELSE /\ apiKey' = key
            /\ IF CheckKey(key) # ""
               THEN /\ Finish(req, FailureBranch(impl, req, CheckKey(key), seed, now),
                              seed, now)
                    /\ UNCHANGED calls
               ELSE /\ pc' = IF impl = "services" THEN "testing" ELSE "sending"
                    /\ UNCHANGED <<calls, estimated, path, http>>

\* The answer to testOpenAIAPI arrives (services copy only).
TestReply(reply, seed, now) ==
    /\ pc = "testing"
    /\ calls' = Append(calls, [api |-> "test", net |-> reply.net, status |-> reply.status])
    /\ UNCHANGED <<dashVars, impl, apiKey, request, arg, ret>>
    /\ IF testOpenAIAPI(reply) # ""
       THEN Finish(request, FailureBranch(impl, request, "test_failed", seed, now),
                   seed, now)
       ELSE /\ pc' = "sending"
            /\ UNCHANGED <<estimated, path, http>>

\* The answer to sendChatGPTRequest arrives; the response is parsed.
ChatReply(reply, seed, now) ==
    /\ pc = "sending"
    /\ calls' = Append(calls, [api |-> "chat", net |-> reply.net, status |-> reply.status])
    /\ UNCHANGED <<dashVars, impl, apiKey, request, arg, ret>>
    /\ Finish(request, AfterSend(impl, request, sendChatGPTRequest(reply), seed, now),
              seed, now)

\* The answer is written; the handler is ready for the next request.
Deliver ==
    /\ pc = "done"
    /\ pc' = "idle"
    /\ apiKey' = <<>>
    /\ request' = NoRequest
    /\ calls' = <<>>
    /\ estimated' = 0
    /\ path' = ""
    /\ http' = NoHttp
    /\ UNCHANGED <<dashVars, impl, arg, ret>>

\* The guards on pc stand before the quantifiers so that the inputs are
\* enumerated only where the action is enabled.
Next ==
    \/ BindError
    \/ /\ pc = "idle"
       /\ \E req \in Requests, key \in ApiKeys, seed \in Seeds, now \in Nows :
              GenerateSalesForecast(req, key, seed, now)
    \/ /\ pc = "testing"
       /\ \E reply \in TestReplies, seed \in Seeds, now \in Nows :
              TestReply(reply, seed, now)
    \/ /\ pc = "sending"
       /\ \E reply \in ChatReplies, seed \in Seeds, now \in Nows :
              ChatReply(reply, seed, now)
    \/ Deliver

Spec == Init /\ [][Next]_vars

\* ------------------------------------------- direct calls of the estimator

\* The points of the direct calls: those of the requests and a second
\* month label, at a year's end.
EstPoints == Points \cup {[Period |-> Lbl("ym", 2024, 12, 0), Total |-> 5]}

EstSeries == UNION {[1..n -> EstPoints] : n \in 0..MaxEstLen}

EstArgs ==
    [fn : {"estimate"},
     req : [TimeSeriesData : EstSeries, TimePeriod : TimePeriods,
            PeriodsToForecast : {-1, 0, 3, 6}],
     seed : Seeds, now : Nows]

InitEst ==
    /\ impl = "services"
    /\ NoDashboard
    /\ pc = "idle"
    /\ apiKey = <<>>
    /\ request = NoRequest
    /\ calls = <<>>
    /\ estimated = 0
    /\ path = ""
    /\ http = NoHttp
    /\ arg \in EstArgs
    /\ ret = NoRet

\* generateSimpleForecast(arg.req) is called and returns (or panics).
CallEstimator ==
    /\ arg.fn = "estimate"
    /\ ~ret.returned
    /\ ret' = [returned |-> TRUE] @@ generateSimpleForecast(arg.req, arg.seed, arg.now)
    /\ UNCHANGED <<dashVars, impl, pc, apiKey, request, calls, estimated, path, http, arg>>

NextEst == CallEstimator

SpecEst == InitEst /\ [][NextEst]_vars

\* ------------------------------------------ two calls on the same request

\* The requests given to the estimator twice: every series of the direct
\* calls, by day and by month, three periods ahead.
TwiceArgs ==
    [fn : {"estimate"},
     req : [TimeSeriesData : EstSeries, TimePeriod : {"day", "month"},
            PeriodsToForecast : {3}],
     seed : Seeds, now : Nows]

InitTwice ==
    /\ impl = "services"
    /\ NoDashboard
    /\ pc = "idle"
    /\ apiKey = <<>>
    /\ request = NoRequest
    /\ calls = <<>>
    /\ estimated = 0
    /\ path = ""
    /\ http = NoHttp
    /\ arg \in TwiceArgs
    /\ ret = NoRet

\* generateSimpleForecast(arg.req) is called a second time, on the same
\* request: the global generator is at any position by then, other
\* invocations having drawn from it, and the clock at any date not before
\* that of the first call.
CallEstimatorAgain ==
    /\ arg.fn = "estimate"
    /\ ret.returned
    /\ "again" \notin DOMAIN ret
    /\ \E seed \in Seeds, now \in Nows :
           /\ ~After(arg.now, now)
           /\ ret' = ret @@ [again |-> generateSimpleForecast(arg.req, seed, now)]
    /\ UNCHANGED <<dashVars, impl, pc, apiKey, request, calls, estimated, path, http, arg>>

NextTwice ==
    \/ CallEstimator
    \/ CallEstimatorAgain

SpecTwice == InitTwice /\ [][NextTwice]_vars

\* ------------------------------------------------- the dashboard's buckets

\* Amounts are integers in thousandths of the currency unit; salesData is
\* the sequence of the entries of the object, [date, amounts], one per date
\* string; tz tells whether the browser's clock is behind UTC ("west") or
\* not, which decides the local date of a date string parsed as UTC midnight.

\* Days from 0001-01-01 to the date t, counted from the calendar rules.
DayNumber(t) ==
    365 * (t.y - 1) + ((t.y - 1) \div 4) - ((t.y - 1) \div 100) + ((t.y - 1) \div 400)
    + Sum([k \in 1..(t.m - 1) |-> DaysIn(t.y, k)]) + t.d

\* Date.getDay(): 0 for Sunday (0001-01-01 is a Monday).
GetDay(t) == DayNumber(t) % 7

\* The local calendar date of new Date(dateStr).
LocalDate(date, tz) == IF tz = "west" THEN AddDate(date, 0, 0, -1) ELSE date

\* A variant of the key that takes the day from the local calendar date.
PeriodKey_LocalDay(date, period, tz) ==
    CASE period = "day" -> FormatDay(LocalDate(date, tz))
      [] period = "week" -> FormatDay(AddDate(date, 0, 0, -GetDay(LocalDate(date, tz))))
      [] period = "month" -> FormatMonth(LocalDate(date, tz))
      [] OTHER -> Lbl("", 0, 0, 0)

\* The switch of groupDataByPeriod: the key of a date string.
PeriodKey(date, period, tz) ==
    CASE period = "day" -> FormatDay(date)
      [] period = "week" -> FormatDay(AddDate(date, 0, 0, -GetDay(LocalDate(date, tz))))
      [] period = "month" -> FormatMonth(LocalDate(date, tz))
      [] OTHER -> Lbl("", 0, 0, 0)

\* A variant of the accumulation that keeps the last total of a key.
GroupStep_Overwrite(grouped, key, periodTotal) ==
    IF \E i \in DOMAIN grouped : grouped[i].period = key
    THEN [i \in DOMAIN grouped |->
             IF grouped[i].period = key
             THEN [period |-> key, total |-> periodTotal]
             ELSE grouped[i]]
    ELSE Append(grouped, [period |-> key, total |-> periodTotal])

\* if (groupedData[periodKey]) += periodTotal else = periodTotal: a key with
\* a total of 0 is falsy and is assigned anew, in its place.
GroupStep(grouped, key, periodTotal) ==
    IF \E i \in DOMAIN grouped : grouped[i].period = key /\ grouped[i].total # 0
    THEN [i \in DOMAIN grouped |->
             IF grouped[i].period = key
             THEN [period |-> key, total |-> grouped[i].total + periodTotal]
             ELSE grouped[i]]
    ELSE IF \E i \in DOMAIN grouped : grouped[i].period = key
    THEN [i \in DOMAIN grouped |->
             IF grouped[i].period = key
             THEN [period |-> key, total |-> periodTotal]
             ELSE grouped[i]]
    ELSE Append(grouped, [period |-> key, total |-> periodTotal])

\* The forEach of groupDataByPeriod over the entries, from groupedData.
RECURSIVE GroupEntries(_, _, _, _)
GroupEntries(data, period, tz, grouped) ==
    IF data = <<>> THEN grouped
    ELSE GroupEntries(Tail(data), period, tz,
                      GroupStep(grouped, PeriodKey(Head(data).date, period, tz),
                                Sum(Head(data).amounts)))

\* groupDataByPeriod: the entries of groupedData in insertion order.
groupDataByPeriod(data, period, tz) == GroupEntries(data, period, tz, <<>>)

\* Math.round(total * 100) / 100: to the nearest hundredth, halves upwards.
MathRound100(total) == ((total + 5) \div 10) * 10

\* A variant of the comparator that orders months backwards.
SortBefore_MonthsBackwards(a, b, period) ==
    IF period = "month"
    THEN a.period.y > b.period.y \/ (a.period.y = b.period.y /\ a.period.m > b.period.m)
    ELSE DayNumber(a.period) < DayNumber(b.period)

\* The comparator of prepareTimeSeriesData is negative: localeCompare of two
\* YYYY-MM strings for months, the difference of the dates' times otherwise.
SortBefore(a, b, period) ==
    IF period = "month"
    THEN a.period.y < b.period.y \/ (a.period.y = b.period.y /\ a.period.m < b.period.m)
    ELSE DayNumber(a.period) < DayNumber(b.period)

\* Array.prototype.sort (stable): x goes before the first element it precedes.
RECURSIVE SortInsert(_, _, _)
SortInsert(sorted, x, period) ==
    IF sorted = <<>> THEN <<x>>
    ELSE IF SortBefore(x, Head(sorted), period) THEN <<x>> \o sorted
    ELSE <<Head(sorted)>> \o SortInsert(Tail(sorted), x, period)

RECURSIVE SortSeries(_, _, _)
SortSeries(s, period, sorted) ==
    IF s = <<>> THEN sorted
    ELSE SortSeries(Tail(s), period, SortInsert(sorted, Head(s), period))

\* prepareTimeSeriesData
prepareTimeSeriesData(data, period, tz) ==
    SortSeries([i \in DOMAIN groupDataByPeriod(data, period, tz) |->
                   [period |-> groupDataByPeriod(data, period, tz)[i].period,
                    total |-> MathRound100(groupDataByPeriod(data, period, tz)[i].total)]],
               period, <<>>)

\* ------------------------------------------- direct calls of the helpers

\* Last labels handed to generateNextPeriod: month labels, day labels at
\* month and year ends, and a label of neither shape.
AdvLabels ==
    { Lbl("ym", 2024, 1, 0), Lbl("ym", 2024, 12, 0),
      Lbl("ymd", 2024, 1, 29), Lbl("ymd", 2024, 1, 31), Lbl("ymd", 2024, 2, 28),
      Lbl("ymd", 2023, 2, 28), Lbl("ymd", 2023, 12, 31), Lbl("text", 0, 0, 0) }

AdvArgs ==
    [fn : {"advance"}, lastPeriod : AdvLabels, timePeriod : TimePeriods,
     offset : 1..MaxOffset, now : Nows]

\* Provider texts handed to the parser: every sequence of at most MaxTok
\* tokens out of brackets, two objects, a comma, the literal null and prose.
ParseTokens == {"[", "]", ObjFeb, ObjNeg, ",", "null", "prose"}

ParseTexts == UNION {[1..n -> ParseTokens] : n \in 0..MaxTok}

ParseArgs ==
    [fn : {"parse"}, response : [Choices : {<<>>} \cup {<<c>> : c \in ParseTexts}]]

\* Series handed to the filter: the points of the direct calls and a month
\* label exactly 12 months before the latest one.
FilterPoints == EstPoints \cup {[Period |-> Lbl("ym", 2023, 12, 0), Total |-> 2]}

FilterArgs ==
    [fn : {"filter"}, data : UNION {[1..n -> FilterPoints] : n \in 0..MaxEstLen}]

\* The dashboard's observations: dates around a week's, a month's and a
\* year's end, amounts with and without fractions of a hundredth, negative
\* ones, and days that cancel each other.  No sum of them lies halfway
\* between two hundredths, where the binary value of total * 100 decides.
BucketDates ==
    {Date(2023, 12, 31), Date(2024, 1, 14), Date(2024, 1, 15), Date(2024, 1, 31),
     Date(2024, 2, 1)}

AmountLists == {<<1004>>, <<-1004>>, <<-6, 2500>>, <<250, -1250>>}

TimeZones == {"utc_or_east", "west"}

SalesDatas ==
    {d \in UNION {[1..n -> [date : BucketDates, amounts : AmountLists]] : n \in 0..MaxObs} :
        \A i, j \in DOMAIN d : i # j => d[i].date # d[j].date}

\* A Monday, the Tuesday after it and the Monday of the next week, with the
\* amounts 100, 150 and 200, in every order.
WeekExample ==
    {d \in [1..3 -> {[date |-> Date(2024, 1, 1), amounts |-> <<100000>>],
                     [date |-> Date(2024, 1, 2), amounts |-> <<150000>>],
                     [date |-> Date(2024, 1, 8), amounts |-> <<200000>>]}] :
        \A i, j \in 1..3 : i # j => d[i] # d[j]}

BucketArgs ==
    [fn : {"bucket"}, salesData : SalesDatas \cup WeekExample,
     timePeriod : {"day", "week", "month"}, tz : TimeZones]

FnArgs == AdvArgs \cup ParseArgs \cup FilterArgs \cup BucketArgs

InitFn ==
    /\ impl = "services"
    /\ NoDashboard
    /\ pc = "idle"
    /\ apiKey = <<>>
    /\ request = NoRequest
    /\ calls = <<>>
    /\ estimated = 0
    /\ path = ""
    /\ http = NoHttp
    /\ arg \in FnArgs
    /\ ret = NoRet

\* generateNextPeriod(arg.lastPeriod, arg.timePeriod, arg.offset) returns its
\* string; the function has no error result.
CallAdvance ==
    /\ arg.fn = "advance"
    /\ ~ret.returned
    /\ ret' = [returned |-> TRUE, err |-> FALSE,
               label |-> generateNextPeriod(arg.lastPeriod, arg.timePeriod,
                                            arg.offset, arg.now)]
    /\ UNCHANGED <<dashVars, impl, pc, apiKey, request, calls, estimated, path, http, arg>>

\* parseSinglePeriodChatGPTResponse(arg.response) returns.
CallParse ==
    /\ arg.fn = "parse"
    /\ ~ret.returned
    /\ ret' = [returned |-> TRUE,
               forecast |-> parseSinglePeriodChatGPTResponse(arg.response).forecast,
               raw |-> parseSinglePeriodChatGPTResponse(arg.response).raw,
               err |-> parseSinglePeriodChatGPTResponse(arg.response).err]
    /\ UNCHANGED <<dashVars, impl, pc, apiKey, request, calls, estimated, path, http, arg>>

\* filterToLast12Months(arg.data) returns.
CallFilter ==
    /\ arg.fn = "filter"
    /\ ~ret.returned
    /\ ret' = [returned |-> TRUE, data |-> filterToLast12Months(arg.data)]
    /\ UNCHANGED <<dashVars, impl, pc, apiKey, request, calls, estimated, path, http, arg>>

\* prepareTimeSeriesData() returns for the dashboard's salesData and
\* timePeriod.
CallBucket ==
    /\ arg.fn = "bucket"
    /\ ~ret.returned
    /\ ret' = [returned |-> TRUE,
               series |-> prepareTimeSeriesData(arg.salesData, arg.timePeriod, arg.tz)]
    /\ UNCHANGED <<dashVars, impl, pc, apiKey, request, calls, estimated, path, http, arg>>

\* A bucketed series as salesData: one entry per point, dated by its key,
\* with the total as its only amount.
AsSalesData(series) ==
    [i \in DOMAIN series |->
        [date |-> Date(series[i].period.y, series[i].period.m, series[i].period.d),
         amounts |-> <<series[i].total>>]]

\* prepareTimeSeriesData() is run once more, by day, on the series it
\* returned for "day".
CallBucketAgain ==
    /\ arg.fn = "bucket"
    /\ arg.timePeriod = "day"
    /\ ret.returned
    /\ "again" \notin DOMAIN ret
    /\ ret' = [returned |-> TRUE, series |-> ret.series,
               again |-> prepareTimeSeriesData(AsSalesData(ret.series), "day", arg.tz)]
    /\ UNCHANGED <<dashVars, impl, pc, apiKey, request, calls, estimated, path, http, arg>>

NextFn ==
    \/ CallAdvance
    \/ CallParse
    \/ CallFilter
    \/ CallBucket
    \/ CallBucketAgain

SpecFn == InitFn /\ [][NextFn]_vars

\* ------------------------------------------------------------ the dashboard

\* The dashboard holds a date range, the report fetched for a range, the
\* selected granularity, the forecasts cached by granularity and the flag
\* isGeneratingForecast.  A date range is the number of the change that
\* chose it; a report is the number of the range it was requested for, and
\* a forecast names the report its series was bucketed from.

\* The granularities of the button group.
ButtonPeriods == {"day", "week", "month"}

\* disabled= of the Generate button.
GenerateDisabled(period) ==
    \/ isGeneratingForecast
    \/ salesData = 0
    \/ period \in DOMAIN forecastCache

\* A variant of the cache key: the granularity selected when the answer comes.
CacheKey_Shown(sent, shown) == shown

\* [timePeriod]: forecastResult, timePeriod being that of the closure.
CacheKey(sent, shown) == sent

\* forecastCache after { ...prev, [key]: result }.
CacheWith(prev, key, result) ==
    [p \in DOMAIN prev \cup {key} |-> IF p = key THEN result ELSE prev[p]]

\* The sequence s without its k-th element.
Without(s, k) == SubSeq(s, 1, k - 1) \o SubSeq(s, k + 1, Len(s))

\* After mount: the default range is set, its report is requested and the
\* cache is cleared.
InitDash ==
    /\ impl = "services"
    /\ pc = "idle"
    /\ apiKey = <<>>
    /\ request = NoRequest
    /\ calls = <<>>
    /\ estimated = 0
    /\ path = ""
    /\ http = NoHttp
    /\ arg = NoArg
    /\ ret = NoRet
    /\ dateRange = 1
    /\ salesData = 0
    /\ forecastCache = <<>>
    /\ isGeneratingForecast = FALSE
    /\ shownPeriod = "month"
    /\ fetches = <<"pending">>
    /\ forecasts = <<>>

\* A date input changes: the new range is rendered, fetchSalesData() sends
\* its request and the cache is cleared.
SetDateRange ==
    /\ dateRange < MaxRanges
    /\ dateRange' = dateRange + 1
    /\ fetches' = Append(fetches, "pending")
    /\ forecastCache' = <<>>
    /\ UNCHANGED <<serverVars, salesData, isGeneratingForecast, shownPeriod, forecasts>>

\* The report request of range r is answered: setSalesData(data), or
\* setError on a failure.
FetchAnswers ==
    /\ \E r \in DOMAIN fetches, ok \in BOOLEAN :
           /\ fetches[r] = "pending"
           /\ fetches' = [fetches EXCEPT ![r] = IF ok THEN "ok" ELSE "failed"]
           /\ salesData' = IF ok THEN r ELSE salesData
    /\ UNCHANGED <<serverVars, dateRange, forecastCache, isGeneratingForecast,
                   shownPeriod, forecasts>>

\* A button of the group is clicked.
SetTimePeriod ==
    /\ \E period \in ButtonPeriods \ {shownPeriod} : shownPeriod' = period
    /\ UNCHANGED <<serverVars, dateRange, salesData, forecastCache,
                   isGeneratingForecast, fetches, forecasts>>

\* The Generate button is clicked: generateForecast() sets the flag and
\* posts the series bucketed from salesData by the selected granularity.
GenerateForecast ==
    /\ ~GenerateDisabled(shownPeriod)
    /\ isGeneratingForecast' = TRUE
    /\ forecasts' = Append(forecasts, [timePeriod |-> shownPeriod, series |-> salesData])
    /\ UNCHANGED <<serverVars, dateRange, salesData, forecastCache, shownPeriod, fetches>>

\* A forecast request is answered: the result is stored, or the error is
\* shown; finally the flag is reset.
ForecastAnswers ==
    /\ \E k \in DOMAIN forecasts, ok \in BOOLEAN :
           /\ forecastCache' =
                  IF ok THEN CacheWith(forecastCache,
                                       CacheKey(forecasts[k].timePeriod, shownPeriod),
                                       forecasts[k])
                  ELSE forecastCache
           /\ forecasts' = Without(forecasts, k)
    /\ isGeneratingForecast' = FALSE
    /\ UNCHANGED <<serverVars, dateRange, salesData, shownPeriod, fetches>>

NextDash ==
    \/ SetDateRange
    \/ FetchAnswers
    \/ SetTimePeriod
    \/ GenerateForecast
    \/ ForecastAnswers

SpecDash == InitDash /\ [][NextDash]_vars

\* ------------------------------------------------------------------ claims

\* The handler has answered a request that was bound.
Answered == pc = "done" /\ path # "bind_error"

\* The simple forecast was run in this invocation and its result answered.
FallbackTaken == pc = "done" /\ estimated > 0 /\ http.status = 200

\* The credential is absent, shorter than 10 characters or lacks "sk-".
InvalidKey(key) ==
    \/ key = <<>>
    \/ Len(key) < 10
    \/ \E i \in 1..3 : i > Len(key) \/ key[i] # <<"s", "k", "-">>[i]

\* The points of a series inside the lookback: the period parses and is
\* not older than 12 months before any parsable period of the series.
InLookback(s) ==
    LET parsed == {i \in DOMAIN s : ParsePeriod(s[i].Period).ok}
        cutoffs == {AddDate(ParsePeriod(s[j].Period).t, 0, -12, 0) : j \in parsed}
    IN  {i \in parsed : \A c \in cutoffs : ~After(c, ParsePeriod(s[i].Period).t)}

\* C1: every invocation on a non-empty series ends in a successful
\* ForecastResponse (status 200), whatever the credential, the provider's
\* answer and the parse give.
C1_AlwaysSucceeds ==
    (Answered /\ Len(request.TimeSeriesData) > 0) => http.status = 200

\* C2 as claimed: the fallback on a series of at least 2 points never
\* returns an empty forecast.
C2_FallbackNeverEmpty ==
    (FallbackTaken /\ Len(request.TimeSeriesData) >= 2) => Len(http.body.Forecast) > 0

\* C2 as amended: the fallback on a series with at least 2 points inside
\* the 12-month lookback never returns an empty forecast.
C2_FallbackNonEmptyInLookback ==
    (FallbackTaken /\ Cardinality(InLookback(request.TimeSeriesData)) >= 2)
        => Len(http.body.Forecast) > 0

\* C2 witness: the fallback answered a three-point series of which two
\* points are inside the lookback, with a non-empty forecast.
C2_Witness ==
    /\ FallbackTaken
    /\ Cardinality(InLookback(request.TimeSeriesData)) = 2
    /\ Len(request.TimeSeriesData) = 3
    /\ Len(http.body.Forecast) > 0

\* C3: an absent, short or wrongly prefixed credential leads to no outbound
\* request and to a run of the trend estimator.
C3_InvalidKeyFallsBack ==
    (Answered /\ path # "no_data" /\ InvalidKey(apiKey))
        => (calls = <<>> /\ estimated > 0)

\* C4: with an invalid credential the answer is a success whose raw response
\* is a fallback reason and whose forecast has the length, the labels and
\* values a direct call of the trend estimator can give.
C4_InvalidKeyLikeEstimator ==
    (Answered /\ path # "no_data" /\ InvalidKey(apiKey)) =>
        /\ http.status = 200
        /\ http.body.RawResponse \in FallbackReasons
        /\ \E now \in Nows :
             LET direct(seed) ==
                     generateSimpleForecast(
                         [TimeSeriesData |-> request.TimeSeriesData,
                          TimePeriod |-> TimePeriodOf(request),
                          PeriodsToForecast |-> getForecastPeriods(TimePeriodOf(request))],
                         seed, now).forecast
             IN  /\ Len(http.body.Forecast) = Len(direct(0))
                 /\ \A i \in 1..Len(direct(0)) :
                        /\ http.body.Forecast[i].Period = direct(0)[i].Period
                        /\ \E seed \in Seeds :
                               http.body.Forecast[i].Total = direct(seed)[i].Total

\* C5 as claimed: the status message of a provider-sourced answer differs
\* from the status message a fallback answer to the same request carries.
C5_MessageTellsSource ==
    (pc = "done" /\ http.status = 200 /\ path = "provider") =>
        \A now \in Nows :
            http.body.Message #
                Respond("services", request,
                        FailureBranch("services", request, "parse_failed", 0, now),
                        0, now).body.Message

\* C5 as amended: every successful answer carries the same message; the raw
\* response tells the source: it is one of the fallback reasons exactly when
\* the forecast came from the fallback.
C5_RawResponseTellsSource ==
    (pc = "done" /\ http.status = 200) =>
        /\ http.body.Message = MsgOk
        /\ (http.body.RawResponse \in FallbackReasons) <=> (estimated > 0)
        /\ (path = "provider") <=> (estimated = 0)

\* C5 witness: a provider-sourced answer with forecast points whose raw
\* response is no fallback reason.
C5_Witness ==
    /\ pc = "done"
    /\ http.status = 200
    /\ path = "provider"
    /\ Len(http.body.Forecast) > 0
    /\ http.body.RawResponse \notin FallbackReasons

\* C6 as claimed: a series with fewer than 2 points is never answered with
\* an error response.
C6_InputErrorNeverFails ==
    (Answered /\ Len(request.TimeSeriesData) < 2) => http.status = 200

\* C6 as amended: the empty series, and only it, is rejected with status 400
\* before any credential is read; a series of one point that reaches the
\* fallback is answered 200 with an empty forecast.
C6_EmptyRejectedOnePointEmpty ==
    Answered =>
        /\ (Len(request.TimeSeriesData) = 0) <=> (path = "no_data")
        /\ path = "no_data" =>
               (http.status = 400 /\ calls = <<>> /\ estimated = 0 /\ apiKey = <<>>)
        /\ (FallbackTaken /\ Len(request.TimeSeriesData) = 1) =>
               http.body.Forecast = <<>>

\* C6 witness: the fallback answered a series of one parsable point with an
\* empty forecast.
C6_Witness ==
    /\ FallbackTaken
    /\ Len(request.TimeSeriesData) = 1
    /\ ParsePeriod(request.TimeSeriesData[1].Period).ok
    /\ http.body.Forecast = <<>>

\* C7: generateSimpleForecast on 0 or 1 points returns the empty sequence
\* and does not panic, for every granularity and every periodsToForecast.
C7_FewPointsEmpty ==
    (ret.returned /\ Len(arg.req.TimeSeriesData) < 2)
        => (ret.forecast = <<>> /\ ~ret.panic)

\* C7 witness: a direct call on one parsable point with a negative number
\* of periods returned the empty sequence without panic.
C7_Witness ==
    /\ ret.returned
    /\ Len(arg.req.TimeSeriesData) = 1
    /\ ParsePeriod(arg.req.TimeSeriesData[1].Period).ok
    /\ arg.req.PeriodsToForecast = -1
    /\ ret.forecast = <<>>
    /\ ~ret.panic

\* C8: no forecast point of a successful answer is negative, whether the
\* estimator or the provider produced it.
C8_NoNegativeForecast ==
    (pc = "done" /\ http.status = 200) =>
        \A i \in 1..Len(http.body.Forecast) : ~RNeg(http.body.Forecast[i].Total)

\* C9: without a number of periods in the request, the fallback on at least
\* 2 points inside the lookback gives 14 points for "day", 4 for "week" and
\* 6 for "month".
C9_DefaultPeriods ==
    (/\ FallbackTaken
     /\ request.PeriodsToForecast = 0
     /\ Cardinality(InLookback(request.TimeSeriesData)) >= 2) =>
        /\ request.TimePeriod = "day" => Len(http.body.Forecast) = 14
        /\ request.TimePeriod = "week" => Len(http.body.Forecast) = 4
        /\ request.TimePeriod = "month" => Len(http.body.Forecast) = 6

\* C9 witness: the fallback answered a "day" request without a number of
\* periods with 14 points.
C9_Witness ==
    /\ FallbackTaken
    /\ request.PeriodsToForecast = 0
    /\ request.TimePeriod = "day"
    /\ Cardinality(InLookback(request.TimeSeriesData)) >= 2
    /\ Len(http.body.Forecast) = 14

\* C10: a positive periodsToForecast in the request sets the number of
\* points of the fallback forecast.
C10_OverrideHonoured ==
    (/\ FallbackTaken
     /\ request.PeriodsToForecast > 0
     /\ Cardinality(InLookback(request.TimeSeriesData)) >= 2) =>
        Len(http.body.Forecast) = request.PeriodsToForecast

\* The last point of a series that is inside the lookback (0 if none).
LastInLookback(s) ==
    IF InLookback(s) = {} THEN 0
    ELSE CHOOSE i \in InLookback(s) : \A j \in InLookback(s) : j <= i

\* The forecast of a direct call has n points, none negative, the i-th
\* labelled by generateNextPeriod from the label last.
LabelledFrom(last, n) ==
    /\ ~ret.panic
    /\ Len(ret.forecast) = n
    /\ \A i \in 1..n :
           /\ ret.forecast[i].Period =
                  generateNextPeriod(last, arg.req.TimePeriod, i, arg.now)
           /\ ~RNeg(ret.forecast[i].Total)

\* C11 as claimed: on a series of at least 2 points the estimator returns
\* exactly periodsToForecast points, the i-th labelled by advancing the label
\* of the last point of the series i times, each value >= 0.
C11_LabelsFromLastPoint ==
    (/\ ret.returned
     /\ Len(arg.req.TimeSeriesData) >= 2
     /\ arg.req.PeriodsToForecast >= 0) =>
        LabelledFrom(arg.req.TimeSeriesData[Len(arg.req.TimeSeriesData)].Period,
                     arg.req.PeriodsToForecast)

\* C11 as amended: on a series with at least 2 points inside the 12-month
\* lookback and a periodsToForecast >= 0, the estimator returns exactly
\* periodsToForecast points, the i-th labelled by advancing the label of the
\* last point inside the lookback i times, each value >= 0.
C11_LabelsFromLastInLookback ==
    (/\ ret.returned
     /\ Cardinality(InLookback(arg.req.TimeSeriesData)) >= 2
     /\ arg.req.PeriodsToForecast >= 0) =>
        LabelledFrom(arg.req.TimeSeriesData[LastInLookback(arg.req.TimeSeriesData)].Period,
                     arg.req.PeriodsToForecast)

\* C11 witness: the strictly increasing month series <2024-03: -9, 2024-12: 5>
\* with 6 periods gave the six months 2025-01 .. 2025-06, none negative.
C11_Witness ==
    /\ ret.returned
    /\ arg.req.TimeSeriesData =
           <<[Period |-> Lbl("ym", 2024, 3, 0), Total |-> -9],
             [Period |-> Lbl("ym", 2024, 12, 0), Total |-> 5]>>
    /\ arg.req.TimePeriod = "month"
    /\ arg.req.PeriodsToForecast = 6
    /\ [i \in 1..Len(ret.forecast) |-> ret.forecast[i].Period] =
           [i \in 1..6 |-> Lbl("ym", 2025, i, 0)]
    /\ \A i \in 1..6 : ~RNeg(ret.forecast[i].Total)

\* The label parses under the format the granularity expects.
WellFormed(lastPeriod, timePeriod) ==
    \/ timePeriod \in {"day", "week"} /\ ParseDay(lastPeriod).ok
    \/ timePeriod = "month" /\ ParseMonth(lastPeriod).ok

\* generateNextPeriod was called and has returned.
Advanced == ret.returned /\ arg.fn = "advance"

\* C12: on a well-formed label generateNextPeriod gives the valid day label
\* offset (day) or offset*7 (week) days later, or the month label offset
\* months later, across month and year ends: 2024-01 + 1 month = 2024-02,
\* 2024-12 + 1 month = 2025-01, 2024-01-29 + 3 days = 2024-02-01.
C12_AdvanceByCalendar ==
    (Advanced /\ WellFormed(arg.lastPeriod, arg.timePeriod)) =>
        /\ arg.timePeriod = "day" =>
               /\ ParseDay(ret.label).ok
               /\ DayNumber(ParseDay(ret.label).t) =
                      DayNumber(ParseDay(arg.lastPeriod).t) + arg.offset
        /\ arg.timePeriod = "week" =>
               /\ ParseDay(ret.label).ok
               /\ DayNumber(ParseDay(ret.label).t) =
                      DayNumber(ParseDay(arg.lastPeriod).t) + 7 * arg.offset
        /\ arg.timePeriod = "month" =>
               /\ ParseMonth(ret.label).ok
               /\ 12 * ret.label.y + ret.label.m =
                      12 * arg.lastPeriod.y + arg.lastPeriod.m + arg.offset
        /\ (arg.timePeriod = "month" /\ arg.offset = 1
                /\ arg.lastPeriod = Lbl("ym", 2024, 1, 0))
               => ret.label = Lbl("ym", 2024, 2, 0)
        /\ (arg.timePeriod = "month" /\ arg.offset = 1
                /\ arg.lastPeriod = Lbl("ym", 2024, 12, 0))
               => ret.label = Lbl("ym", 2025, 1, 0)

\* C12 witness: 2024-01-29 advanced by 3 days gave 2024-02-01.
C12_Witness ==
    /\ Advanced
    /\ arg.lastPeriod = Lbl("ymd", 2024, 1, 29)
    /\ arg.timePeriod = "day"
    /\ arg.offset = 3
    /\ ret.label = Lbl("ymd", 2024, 2, 1)

\* C13: when the last label does not parse under the format of the
\* granularity, generateNextPeriod signals an error and returns no label
\* computed from the current time.
C13_ParseErrorSurfaced ==
    (/\ Advanced
     /\ arg.timePeriod \in {"day", "week", "month"}
     /\ ~WellFormed(arg.lastPeriod, arg.timePeriod)
     /\ ~(arg.timePeriod = "month" /\ ParseDay(arg.lastPeriod).ok)) =>
        /\ ret.err
        /\ ret.label \notin
               {FormatDay(AddDate(arg.now, 0, 0, arg.offset)),
                FormatDay(AddDate(arg.now, 0, 0, 7 * arg.offset)),
                FormatMonth(AddDate(arg.now, 0, arg.offset, 0))}

\* The text has a '[' with a ']' somewhere after it.
HasPair(c) == \E i, j \in DOMAIN c : i < j /\ c[i] = "[" /\ c[j] = "]"

\* The substring from the first '[' to the last ']' of a text that has both.
Candidate(c) ==
    SubSeq(c,
           CHOOSE i \in DOMAIN c : c[i] = "[" /\ \A k \in 1..(i - 1) : c[k] # "[",
           CHOOSE j \in DOMAIN c : c[j] = "]" /\ \A k \in (j + 1)..Len(c) : c[k] # "]")

\* The parser was called on a response with one choice.
ParsedText == ret.returned /\ arg.fn = "parse" /\ Len(arg.response.Choices) = 1

\* C14: when the text has a '[' before a ']' and the substring from the
\* first '[' to the last ']' decodes, the parser returns exactly the decoded
\* points, in order, and the whole original text, without error.
C14_CandidateFirstToLast ==
    (/\ ParsedText
     /\ HasPair(arg.response.Choices[1])
     /\ Unmarshal(Candidate(arg.response.Choices[1])).ok) =>
        /\ ret.err = ""
        /\ ret.forecast = Unmarshal(Candidate(arg.response.Choices[1])).points
        /\ ret.raw = arg.response.Choices[1]

\* C14 witness: prose around a one-element array gave exactly that point
\* and the whole text.
C14_Witness ==
    /\ ParsedText
    /\ arg.response.Choices[1] = <<"prose", "[", ObjFeb, "]", "prose">>
    /\ ret.err = ""
    /\ ret.forecast = <<ObjPoint(ObjFeb)>>
    /\ ret.raw = <<"prose", "[", ObjFeb, "]", "prose">>

\* C15: for every text without a '[' followed later by a ']', and for every
\* text whose candidate does not decode, the parser returns an error and no
\* forecast point.
C15_NoArrayIsError ==
    (/\ ParsedText
     /\ \/ ~HasPair(arg.response.Choices[1])
        \/ ~Unmarshal(Candidate(arg.response.Choices[1])).ok) =>
        (ret.err # "" /\ ret.forecast = <<>>)

\* The points of s at the positions in I, in the order of s, from position i.
RECURSIVE Pick(_, _, _)
Pick(s, I, i) ==
    IF i > Len(s) THEN <<>>
    ELSE (IF i \in I THEN <<s[i]>> ELSE <<>>) \o Pick(s, I, i + 1)

\* C16: filterToLast12Months returns exactly the input points, in their
\* order, whose period parses (YYYY-MM-DD or YYYY-MM) and lies on or after
\* the date 12 months before the latest parsable date; nothing is added,
\* duplicated or changed.
C16_FilterKeepsLookback ==
    (ret.returned /\ arg.fn = "filter") =>
        ret.data = Pick(arg.data, InLookback(arg.data), 1)

\* C16 witness: of <2023-12, text, 2023-01-15, 2024-12> the filter kept the
\* point at the cutoff and the latest one, and dropped the other two.
C16_Witness ==
    /\ ret.returned
    /\ arg.fn = "filter"
    /\ arg.data = <<[Period |-> Lbl("ym", 2023, 12, 0), Total |-> 2],
                    [Period |-> Lbl("text", 0, 0, 0), Total |-> 1],
                    [Period |-> Lbl("ymd", 2023, 1, 15), Total |-> 1],
                    [Period |-> Lbl("ym", 2024, 12, 0), Total |-> 5]>>
    /\ ret.data = <<[Period |-> Lbl("ym", 2023, 12, 0), Total |-> 2],
                    [Period |-> Lbl("ym", 2024, 12, 0), Total |-> 5]>>

\* Outbound requests of the invocation so far, the one in flight included.
Outbound == Len(calls) + (IF pc \in {"testing", "sending"} THEN 1 ELSE 0)

\* C17 as amended: an invocation sends at most two outbound requests: in the
\* services copy one test request and, only after the test was answered 200,
\* one forecast request; in the internal copy one forecast request.  No
\* request follows the forecast request.
C17_TestThenAtMostOneChat ==
    /\ Outbound <= (IF impl = "services" THEN 2 ELSE 1)
    /\ \A i \in DOMAIN calls :
           /\ calls[i].api = "test" => (i = 1 /\ impl = "services")
           /\ calls[i].api = "chat" =>
                  /\ i = Len(calls)
                  /\ pc = "done"
                  /\ impl = "services" =>
                         (i = 2 /\ calls[1] = [api |-> "test", net |-> "ok", status |-> 200])
    /\ (pc = "sending" /\ impl = "services") =>
           calls = <<[api |-> "test", net |-> "ok", status |-> 200]>>

\* C17 witness: an invocation answered from the provider after a test
\* request and a forecast request.
C17_Witness ==
    /\ pc = "done"
    /\ path = "provider"
    /\ Len(calls) = 2
    /\ calls[1].api = "test"
    /\ calls[2].api = "chat"

\* C17 as claimed: in every invocation at most one outbound request is sent,
\* whatever path the orchestrator takes.
C17_AtMostOneOutbound == Outbound <= 1

\* An outbound request that ended in a transport error or a status other
\* than 200.
FailedCall(c) == c.net # "ok" \/ c.status # 200

\* C18: a failed provider request is the last request of its invocation (no
\* retry), the trend estimator runs once right after it, and the answer is
\* the same successful fallback whatever the kind of failure.
C18_FailureNotRetried ==
    (pc = "done" /\ \E i \in DOMAIN calls : FailedCall(calls[i])) =>
        /\ \A i \in DOMAIN calls : FailedCall(calls[i]) => i = Len(calls)
        /\ estimated = 1
        /\ http.status = 200
        /\ http.body.RawResponse =
               (IF calls[Len(calls)].api = "test" THEN ReasonTestFailed
                ELSE ReasonRequestFailed)
        /\ Len(http.body.Forecast) =
               Len(generateSimpleForecast(
                       createRequestForPeriod(request, TimePeriodOf(request)),
                       0, ZeroTime).forecast)

\* prepareTimeSeriesData was called and has returned.
Bucketed == ret.returned /\ arg.fn = "bucket"

\* The keys of the observations, and the observations of one key.
BucketKeys ==
    {PeriodKey(arg.salesData[i].date, arg.timePeriod, arg.tz) : i \in DOMAIN arg.salesData}

ObservationsOf(key) ==
    {i \in DOMAIN arg.salesData :
        PeriodKey(arg.salesData[i].date, arg.timePeriod, arg.tz) = key}

\* The sum of the amounts of the observations in I.
RECURSIVE AmountOf(_)
AmountOf(I) ==
    IF I = {} THEN 0
    ELSE LET i == CHOOSE x \in I : TRUE
         IN  Sum(arg.salesData[i].amounts) + AmountOf(I \ {i})

\* Label a is chronologically before label b (year, month, day).
Earlier(a, b) ==
    \/ a.y < b.y
    \/ a.y = b.y /\ a.m < b.m
    \/ a.y = b.y /\ a.m = b.m /\ a.d < b.d

\* C19: the bucketed series has one point per distinct bucket key and is in
\* strictly ascending chronological order of the keys; no observation
\* gives an empty series.
C19_OnePointPerKeyAscending ==
    Bucketed =>
        /\ {ret.series[i].period : i \in DOMAIN ret.series} = BucketKeys
        /\ Len(ret.series) = Cardinality(BucketKeys)
        /\ \A i \in 1..(Len(ret.series) - 1) :
               Earlier(ret.series[i].period, ret.series[i + 1].period)
        /\ arg.salesData = <<>> => ret.series = <<>>

\* C19 witness: three days given out of order, two of them in one week,
\* came out as two weeks in ascending order.
C19_Witness ==
    /\ Bucketed
    /\ arg.timePeriod = "week"
    /\ arg.tz = "utc_or_east"
    /\ [i \in DOMAIN arg.salesData |-> arg.salesData[i].date] =
           <<Date(2024, 1, 31), Date(2024, 1, 14), Date(2024, 2, 1)>>
    /\ [i \in DOMAIN ret.series |-> ret.series[i].period] =
           <<Lbl("ymd", 2024, 1, 14), Lbl("ymd", 2024, 1, 28)>>

C21_DayBucketingIdempotent ==
    (Bucketed /\ "again" \in DOMAIN ret) => ret.again = ret.series

\* C21 witness: three days given out of order, one with a fraction of a
\* hundredth, were bucketed by day twice with the same result.
C21_Witness ==
    /\ Bucketed
    /\ "again" \in DOMAIN ret
    /\ arg.tz = "west"
    /\ Len(arg.salesData) = 3
    /\ arg.salesData[1].date = Date(2024, 2, 1)
    /\ arg.salesData[2].date = Date(2023, 12, 31)
    /\ arg.salesData[2].amounts = <<1004>>
    /\ Len(ret.again) = 3
    /\ ret.again[1] = [period |-> Lbl("ymd", 2023, 12, 31), total |-> 1000]
    /\ ret.again = ret.series

\* The Sunday on or before the date d.
SundayOnOrBefore(d) == AddDate(d, 0, 0, -GetDay(d))

\* The key the dashboard should give the date d: the day itself, the Sunday
\* on or before it, or its month.
KeyOfDate(d, period) ==
    CASE period = "day" -> FormatDay(d)
      [] period = "week" -> FormatDay(SundayOnOrBefore(d))
      [] OTHER -> FormatMonth(d)

\* The periods of the points of the returned series.
SeriesKeys == {ret.series[j].period : j \in DOMAIN ret.series}

\* C22: by week, the key of an observation is the Sunday on or before its
\* date; 2024-01-01 (100), 2024-01-02 (150) and 2024-01-08 (200) give the
\* series (2023-12-31, 250), (2024-01-07, 200).
C22_WeekKeyIsSunday ==
    (Bucketed /\ arg.timePeriod = "week") =>
        /\ SeriesKeys = {KeyOfDate(arg.salesData[i].date, "week") : i \in DOMAIN arg.salesData}
        /\ arg.salesData \in WeekExample =>
               ret.series = <<[period |-> Lbl("ymd", 2023, 12, 31), total |-> 250000],
                              [period |-> Lbl("ymd", 2024, 1, 7), total |-> 200000]>>

\* C23: the key of an observation depends on its calendar date and the
\* granularity only: the series has the keys it has in every other
\* timezone, by month the YYYY-MM of the date and by day the date itself.
C23_KeyOfCalendarDateOnly ==
    Bucketed =>
        /\ \A tz \in TimeZones :
               SeriesKeys = {PeriodKey(arg.salesData[i].date, arg.timePeriod, tz) :
                                i \in DOMAIN arg.salesData}
        /\ arg.timePeriod \in {"day", "month"} =>
               SeriesKeys = {KeyOfDate(arg.salesData[i].date, arg.timePeriod) :
                                i \in DOMAIN arg.salesData}

\* The direct call of the estimator has returned.
Estimated == ret.returned /\ arg.fn = "estimate"

\* The number of points of the series inside the 12-month lookback.
KeptCount == Cardinality(InLookback(arg.req.TimeSeriesData))

\* C26 as claimed: the linear branch runs exactly on a series of 2 points,
\* and every series of 3 or more points takes the windowed trend branch.
C26_LinearIffTwoPoints ==
    Estimated =>
        /\ ret.branch = "linear" <=> Len(arg.req.TimeSeriesData) = 2
        /\ Len(arg.req.TimeSeriesData) >= 3 => ret.branch = "trend"

\* C26 as amended: the linear branch runs exactly when 2 or 3 points of the
\* series lie inside the lookback, the windowed trend branch exactly when 4
\* or more do, and neither when fewer than 2 do.
C26_LinearIffTwoOrThreeKept ==
    Estimated =>
        LET n == KeptCount
        IN  /\ ret.branch = "linear" <=> n \in {2, 3}
            /\ ret.branch = "trend" <=> n >= 4
            /\ ret.branch = "none" <=> n < 2

\* C26 witness: a series of three points, all inside the lookback, was
\* forecast by the linear branch, three points long.
C26_Witness ==
    /\ Estimated
    /\ Len(arg.req.TimeSeriesData) = 3
    /\ KeptCount = 3
    /\ ret.branch = "linear"
    /\ Len(ret.forecast) = 3

\* The values of the points the estimator keeps, oldest first.
KeptValues ==
    LET kept == filterToLast12Months(arg.req.TimeSeriesData)
    IN  [i \in 1..Len(kept) |-> kept[i].Total]

\* The base value of the i-th forecast point of the trend branch (i from 1):
\* the mean of the last three kept values plus i times a third of its
\* difference to the mean of the older ones.
BaseValue(i) ==
    LET n == Len(KeptValues)
        avgRecent == Rat(Sum(SubSeq(KeptValues, n - 2, n)), 3)
        avgOlder == Rat(Sum(SubSeq(KeptValues, 1, n - 3)), n - 3)
    IN  RAdd(avgRecent, RMul(RDiv(RSub(avgRecent, avgOlder), RInt(3)), RInt(i)))

\* The seasonal factor of the i-th forecast point (i from 1).
SeasonalFactor(i) == RAdd(RInt(1), RMul(Rat(1, 10), SinPi6(i - 1)))

\* lo * x <= v <= hi * x, for a positive x.
Within(v, lo, hi, x) == RLeq(lo, RDiv(v, x)) /\ RLeq(RDiv(v, x), hi)

\* C27: in the trend branch a point whose base value is positive lies within
\* [0.95, 1.05] of base * seasonalFactor, the seasonal factor within
\* [0.9, 1.1], so the point within [0.855, 1.155] of the base value; a point
\* whose base value is not positive is exactly 0.
C27_TrendNoiseBounded ==
    (Estimated /\ ret.branch = "trend" /\ ~ret.panic) =>
        \A i \in DOMAIN ret.forecast :
            IF RNeg(BaseValue(i)) \/ BaseValue(i) = RInt(0)
            THEN ret.forecast[i].Total = RInt(0)
            ELSE /\ Within(RDiv(ret.forecast[i].Total, BaseValue(i)),
                           Rat(95, 100), Rat(105, 100), SeasonalFactor(i))
                 /\ Within(SeasonalFactor(i), Rat(9, 10), Rat(11, 10), RInt(1))
                 /\ Within(ret.forecast[i].Total, Rat(855, 1000), Rat(1155, 1000),
                           BaseValue(i))

\* C27 witness: a trend forecast of six points with a positive base value
\* whose first point is below it and another above it, and a trend forecast
\* with a non-positive base value and the point 0.
C27_Witness ==
    /\ Estimated
    /\ ret.branch = "trend"
    /\ Len(ret.forecast) = 6
    /\ \/ /\ ~RNeg(BaseValue(1)) /\ BaseValue(1) # RInt(0)
          /\ ~RLeq(BaseValue(1), ret.forecast[1].Total)
          /\ \E i \in 2..6 : ~RNeg(BaseValue(i)) /\ ~RLeq(ret.forecast[i].Total, BaseValue(i))
          /\ arg.seed = 0
       \/ /\ RNeg(BaseValue(1))
          /\ ret.forecast[1].Total = RInt(0)
          /\ arg.seed = 1

\* The label of the last point of the series inside the lookback.
LastKeptLabel == arg.req.TimeSeriesData[LastInLookback(arg.req.TimeSeriesData)].Period

\* The YYYY-MM label of the i-th calendar month after the month of label l.
MonthAfter(l, i) ==
    Lbl("ym", (l.y * 12 + l.m - 1 + i) \div 12, ((l.y * 12 + l.m - 1 + i) % 12) + 1, 0)

\* C30: by month, the labels of the fallback forecast are the calendar
\* months that follow the month of the last point, each once and in order,
\* whether that point is labelled YYYY-MM or YYYY-MM-DD, days 29 to 31
\* included.
C30_MonthsConsecutive ==
    (Estimated /\ ~ret.panic /\ arg.req.TimePeriod = "month" /\ KeptCount >= 2) =>
        \A i \in DOMAIN ret.forecast :
            ret.forecast[i].Period = MonthAfter(LastKeptLabel, i)

\* Both calls of the estimator on the same request have returned.
EstimatedTwice == Estimated /\ "again" \in DOMAIN ret

\* The labels and the values of a forecast.
LabelsOf(f) == [i \in DOMAIN f |-> f[i].Period]
ValuesOf(f) == [i \in DOMAIN f |-> f[i].Total]

\* The labels are advanced from the current date: by day or week from a
\* last kept label that is YYYY-MM.
LabelsFromClock ==
    /\ arg.req.TimePeriod \in {"day", "week"}
    /\ KeptCount >= 2
    /\ ~ParseDay(LastKeptLabel).ok

\* C25 as claimed: two invocations of the estimator on the same series,
\* granularity and periodsToForecast return identical forecast sequences.
C25_SameForecastTwice ==
    EstimatedTwice => ret.again.forecast = ret.forecast

\* C25 as amended: two invocations on the same request take the same branch
\* and return the same number of points; the values are identical in the
\* linear branch, and in the trend branch both within [0.95, 1.05] of the
\* same base value times seasonal factor (0 for a base value that is not
\* positive); the labels are identical unless they are advanced from the
\* current date.
C25_SameUpToNoiseAndClock ==
    EstimatedTwice =>
        /\ ret.again.branch = ret.branch
        /\ ret.again.panic = ret.panic
        /\ Len(ret.again.forecast) = Len(ret.forecast)
        /\ ret.branch # "trend" => ValuesOf(ret.again.forecast) = ValuesOf(ret.forecast)
        /\ ret.branch = "trend" =>
               \A i \in DOMAIN ret.again.forecast :
                   IF RNeg(BaseValue(i)) \/ BaseValue(i) = RInt(0)
                   THEN ret.again.forecast[i].Total = RInt(0)
                   ELSE Within(RDiv(ret.again.forecast[i].Total, BaseValue(i)),
                               Rat(95, 100), Rat(105, 100), SeasonalFactor(i))
        /\ ~LabelsFromClock => LabelsOf(ret.again.forecast) = LabelsOf(ret.forecast)

\* C25 witness: the second call on a month series of four kept points gave
\* the same three labels as the first and a different first value.
C25_Witness ==
    /\ EstimatedTwice
    /\ ret.branch = "trend"
    /\ arg.req.TimePeriod = "month"
    /\ Len(ret.forecast) = 3
    /\ LabelsOf(ret.again.forecast) = LabelsOf(ret.forecast)
    /\ ret.again.forecast[1].Total # ret.forecast[1].Total

\* Every report request has been answered.
FetchesAnswered == \A r \in DOMAIN fetches : fetches[r] # "pending"

\* C24: the forecast cache holds no forecast computed from the series of an
\* earlier date range than the current one.
C24_NoForecastOfEarlierRange ==
    \A p \in DOMAIN forecastCache : forecastCache[p].series = dateRange

\* C28: once every report request has been answered, that of the current
\* range with a report, the report shown is the one of the current range.
C28_LatestRangeShown ==
    (dateRange >= 1 /\ FetchesAnswered /\ fetches[dateRange] = "ok") =>
        salesData = dateRange

\* C29: at most one forecast request is in flight; isGeneratingForecast is
\* true exactly while one is, and then the Generate button is disabled for
\* every granularity; a stored forecast is under the granularity that was
\* selected when its request was sent.
C29_OneForecastInFlight ==
    /\ Len(forecasts) <= 1
    /\ isGeneratingForecast <=> forecasts # <<>>
    /\ isGeneratingForecast => \A p \in ButtonPeriods : GenerateDisabled(p)
    /\ \A p \in DOMAIN forecastCache : forecastCache[p].timePeriod = p

\* C29 witness: with a forecast stored under "month", a request sent under
\* "week" is in flight while "day" is selected.
C29_Witness ==
    /\ Len(forecasts) = 1
    /\ forecasts[1].timePeriod = "week"
    /\ shownPeriod = "day"
    /\ isGeneratingForecast
    /\ DOMAIN forecastCache = {"month"}
    /\ forecastCache["month"].timePeriod = "month"

====
